---- MODULE Spec2Model ----
(***************************************************************************)
(* noir-mip parameter generator (src/main.rs): the block header is         *)
(* RLP-encoded, its keccak-256 digest is compared with the published block *)
(* hash, the state root is located in the encoding, the header and the     *)
(* two Merkle proofs are zero-padded to fixed sizes, and the named         *)
(* parameter lines are printed.                                            *)
(*                                                                         *)
(* Bytes are integers 0..255 and byte buffers are sequences of bytes.      *)
(* U256 and U64 values are kept as their minimal big-endian byte strings   *)
(* (no leading zero byte; zero is the empty string), since they do not fit *)
(* the integers of the model checker.  Option<T> is a sequence of length   *)
(* 0 (None) or 1 (Some).                                                   *)
(***************************************************************************)
EXTENDS Integers, Sequences, FiniteSets, TLC

\* ------------------------------------------------------------ constants
BLOCK_HEADER_RLP_BYTES == 590
PROOF_BYTES_LEN == 532
ACCOUNT_PROOF_MAX_DEPTH == 10
STORAGE_PROOF_MAX_DEPTH == 9
\* The literal 32 of rlp_data[start..start + 32].
STATE_ROOT_LEN == 32

\* --------------------------------------------------------------- bounds
\* Longest extra-data field of a fetched header.
MaxExtraData == 97
\* Most nodes of a fetched proof.
MaxDepth == 11
\* Longest node of a fetched proof.
MaxNodeLen == 533
\* Longest filler around the root in the locator's inputs (LocatorSpec).
MaxFill == 2

\* -------------------------------------------------------------- options
None == <<>>
Some(v) == <<v>>
is_some(o) == Len(o) = 1
unwrap(o) == o[1]

\* ---------------------------------------------------------------- bytes
\* vec![b; n]
Rep(n, b) == [i \in 1..n |-> b]
\* A buffer of n nonzero bytes that differ from place to place.
Fill(n, seed) == [i \in 1..n |-> ((seed + 3 * i) % 255) + 1]
\* data[from..] with a 0-based start, as a Rust slice.
SliceFrom(data, from) == SubSeq(data, from + 1, Len(data))
\* data[from..to] with 0-based bounds, as a Rust slice.
Slice(data, from, to) == SubSeq(data, from + 1, to)

\* The minimal big-endian bytes of a length.
RECURSIVE to_be(_)
to_be(n) == IF n = 0 THEN <<>> ELSE Append(to_be(n \div 256), n % 256)

\* The length a big-endian byte string stands for.
RECURSIVE from_be(_)
from_be(bytes) ==
    IF bytes = <<>> THEN 0
    ELSE 256 * from_be(SubSeq(bytes, 1, Len(bytes) - 1)) + bytes[Len(bytes)]

\* U256::to_big_endian into a 32-byte array.
to_big_endian(u) == Rep(32 - Len(u), 0) \o u

\* ------------------------------------------------------------ keccak256
\* The digest keeps keccak's width (32 bytes) and depends on every byte and
\* on the length of the data; it is a polynomial checksum, not the sponge.
\* keccak_absorb gives <<checksum of data[lo..hi], 31^(hi - lo + 1)>> modulo
\* 32749, by halves.
RECURSIVE keccak_absorb(_, _, _)
keccak_absorb(data, lo, hi) ==
    IF lo > hi THEN <<0, 1>>
    ELSE IF lo = hi THEN <<data[lo] + 1, 31>>
    ELSE LET mid == (lo + hi) \div 2
             l == keccak_absorb(data, lo, mid)
             r == keccak_absorb(data, mid + 1, hi)
         IN  <<(l[1] * r[2] + r[1]) % 32749, (l[2] * r[2]) % 32749>>

keccak_state(data) ==
    LET a == keccak_absorb(data, 1, Len(data))
    IN  (7 * a[2] + a[1]) % 32749

keccak256(data) ==
    LET h == keccak_state(data)
    IN  [j \in 1..32 |-> ((h + j) * (j + 1) + (h \div 256)) % 256]

\* ------------------------------------------------------------ RlpStream
\* RlpStream::new()
rlp_new == [buffer |-> <<>>, unfinished_lists |-> <<>>]

\* The header of a list whose payload is len bytes long.
list_header(len) ==
    IF len <= 55 THEN <<192 + len>>
    ELSE <<247 + Len(to_be(len))>> \o to_be(len)

\* One item was appended: the innermost open list counts it and, when it has
\* all the items it declared, is closed (its header is inserted where the
\* list began) and counted as one item of the list around it.  A list is
\* closed as soon as it is full, so its count never passes what it declared.
RECURSIVE note_appended(_)
note_appended(s) ==
    IF s.unfinished_lists = <<>> THEN s
    ELSE LET n == Len(s.unfinished_lists)
             top == s.unfinished_lists[n]
             cur == top.current + 1
         IN  IF cur = top.max
             THEN LET payload == SliceFrom(s.buffer, top.position)
                  IN  note_appended(
                        [s EXCEPT !.buffer = Slice(s.buffer, 0, top.position)
                                              \o list_header(Len(payload))
                                              \o payload,
                                  !.unfinished_lists = SubSeq(s.unfinished_lists, 1, n - 1)])
             ELSE [s EXCEPT !.unfinished_lists[n].current = cur]

\* RlpStream::begin_list(len)
begin_list(s, len) ==
    IF len = 0 THEN note_appended([s EXCEPT !.buffer = s.buffer \o <<192>>])
    ELSE [s EXCEPT !.unfinished_lists =
            Append(s.unfinished_lists,
                   [position |-> Len(s.buffer), current |-> 0, max |-> len])]

\* The RLP encoding of a byte string.
encode_value(value) ==
    IF Len(value) = 0 THEN <<128>>
    ELSE IF Len(value) = 1 /\ value[1] < 128 THEN value
    ELSE IF Len(value) <= 55 THEN <<128 + Len(value)>> \o value
    ELSE <<183 + Len(to_be(Len(value)))>> \o to_be(Len(value)) \o value

\* RlpStream::append(&value) for a byte string, a hash or an unsigned integer.
append(s, value) == note_appended([s EXCEPT !.buffer = s.buffer \o encode_value(value)])

\* RlpStream::as_raw(): the bytes written so far.
as_raw(s) == s.buffer

\* RlpStream::is_finished(): out() panics on a stream that is not.
is_finished(s) == s.unfinished_lists = <<>>

\* ------------------------------------------------------------------ Rlp
\* The prototype of the item that starts at 0-based offset off: whether it is
\* well formed, whether it is a list, and its header and payload lengths.
payload_info(buf, off) ==
    IF off >= Len(buf) THEN [ok |-> FALSE, list |-> FALSE, header_len |-> 0, value_len |-> 0]
    ELSE LET p == buf[off + 1]
             long == IF p >= 248 THEN p - 247 ELSE IF p >= 184 /\ p < 192 THEN p - 183 ELSE 0
             hlen == IF p < 128 THEN 0 ELSE 1 + long
             vlen == IF p < 128 THEN 1
                     ELSE IF p < 184 THEN p - 128
                     ELSE IF p < 192 THEN from_be(Slice(buf, off + 1, off + 1 + long))
                     ELSE IF p < 248 THEN p - 192
                     ELSE from_be(Slice(buf, off + 1, off + 1 + long))
         IN  IF off + 1 + long > Len(buf)
             THEN [ok |-> FALSE, list |-> p >= 192, header_len |-> hlen, value_len |-> 0]
             ELSE [ok |-> off + hlen + vlen <= Len(buf), list |-> p >= 192,
                   header_len |-> hlen, value_len |-> vlen]

\* The 0-based offset of the item k items after the one at off, or -1 when the
\* bytes before end hold fewer items.
RECURSIVE skip_items(_, _, _, _)
skip_items(buf, off, k, end) ==
    IF off >= end THEN -1
    ELSE IF k = 0 THEN off
    ELSE LET info == payload_info(buf, off)
         IN  IF ~info.ok THEN -1
             ELSE skip_items(buf, off + info.header_len + info.value_len, k - 1, end)

\* Rlp::item_count(): the items of the list the buffer holds.
RECURSIVE count_items(_, _, _)
count_items(buf, off, end) ==
    IF off >= end THEN 0
    ELSE LET info == payload_info(buf, off)
         IN  IF ~info.ok THEN 0
             ELSE 1 + count_items(buf, off + info.header_len + info.value_len, end)

item_count(buf) ==
    LET top == payload_info(buf, 0)
    IN  IF top.ok /\ top.list
        THEN count_items(buf, top.header_len, top.header_len + top.value_len)
        ELSE 0

\* Rlp::new(buf).at(index) then .data(): Some(bytes of the item), or None when
\* at() or data() returns an error.
rlp_at_data(buf, index) ==
    LET top == payload_info(buf, 0)
    IN  IF ~(top.ok /\ top.list) THEN None
        ELSE LET off == skip_items(buf, top.header_len, index, top.header_len + top.value_len)
             IN  IF off < 0 THEN None
                 ELSE LET info == payload_info(buf, off)
                      IN  IF ~info.ok \/ info.list THEN None
                          ELSE Some(Slice(buf, off + info.header_len,
                                          off + info.header_len + info.value_len))

\* ------------------------------------------------------ pure functions
bloom_to_bytes(bloom_option) ==
    IF is_some(bloom_option) THEN unwrap(bloom_option) ELSE <<>>

\* Mutant: the last window equal to subarray, not the first.
find_subarray_last(array, subarray) ==
    LET starts == {i \in 0..(Len(array) - Len(subarray)) :
                      Slice(array, i, i + Len(subarray)) = subarray}
    IN  IF starts = {} THEN None
        ELSE Some(CHOOSE i \in starts : \A j \in starts : i >= j)

\* array.windows(subarray.len()).position(|window| window == subarray): the
\* 0-based start of the first window equal to subarray.
find_subarray(array, subarray) ==
    LET starts == {i \in 0..(Len(array) - Len(subarray)) :
                      Slice(array, i, i + Len(subarray)) = subarray}
    IN  IF starts = {} THEN None
        ELSE Some(CHOOSE i \in starts : \A j \in starts : i <= j)

\* windows(0) panics, and so does a slice that ends past the data.
split_panics(rlp_data, state_root) ==
    \/ Len(state_root) = 0
    \/ LET found == find_subarray(rlp_data, state_root)
       IN  is_some(found) /\ unwrap(found) + STATE_ROOT_LEN > Len(rlp_data)

split_rlp_by_state_root(rlp_data, state_root) ==
    LET found == find_subarray(rlp_data, state_root)
    IN  IF is_some(found)
        THEN LET start == unwrap(found)
                 rlp_head == Slice(rlp_data, 0, start)
                 state_root_bytes == Slice(rlp_data, start, start + STATE_ROOT_LEN)
                 rlp_tail == SliceFrom(rlp_data, start + STATE_ROOT_LEN)
             IN  Some(<<rlp_head, state_root_bytes, rlp_tail>>)
        ELSE None

\* Mutant: 15 items are declared whether or not the block has a base fee.
num_items_fixed(block) == 15

\* The list length rlp_encode_block declares.
num_items(block) == IF is_some(block.base_fee_per_gas) THEN 15 + 1 ELSE 15

\* The values rlp_encode_block appends, in order.
header_items(block) ==
    <<block.parent_hash, block.uncles_hash, block.author, block.state_root,
      block.transactions_root, block.receipts_root, bloom_to_bytes(block.logs_bloom),
      block.difficulty,
      IF is_some(block.number) THEN unwrap(block.number) ELSE <<>>,
      block.gas_limit, block.gas_used, block.timestamp, block.extra_data,
      IF is_some(block.mix_hash) THEN unwrap(block.mix_hash) ELSE Rep(32, 0),
      IF is_some(block.nonce) THEN unwrap(block.nonce) ELSE Rep(8, 0)>>
    \o (IF is_some(block.base_fee_per_gas) /\ unwrap(block.base_fee_per_gas) # <<>>
        THEN <<unwrap(block.base_fee_per_gas)>> ELSE <<>>)

RECURSIVE append_all(_, _)
append_all(s, items) ==
    IF items = <<>> THEN s ELSE append_all(append(s, Head(items)), Tail(items))

\* The stream of rlp_encode_block when it takes the digest.
header_stream(block) == append_all(begin_list(rlp_new, num_items(block)), header_items(block))

\* Mutant: the digest is taken and never compared with the published hash.
rlp_encode_block_unchecked(block) ==
    LET rlp_stream == header_stream(block)
        hash == keccak256(as_raw(rlp_stream))
    IN  [stream |-> rlp_stream,
         hash |-> hash,
         panic |-> IF ~is_some(block.hash) THEN "called Option::unwrap() on a None value"
                   ELSE IF ~is_finished(rlp_stream) THEN "RlpStream::out: unfinished list"
                   ELSE "",
         out |-> as_raw(rlp_stream)]

\* rlp_encode_block: the digest it takes, whether it panics (the hash is
\* missing or differs, or out() finds the list unfinished), and what it returns.
rlp_encode_block(block) ==
    LET rlp_stream == header_stream(block)
        hash == keccak256(as_raw(rlp_stream))
    IN  [stream |-> rlp_stream,
         hash |-> hash,
         panic |-> IF ~is_some(block.hash) THEN "called Option::unwrap() on a None value"
                   ELSE IF unwrap(block.hash) # hash THEN "Rlp_encode_block: Block hash mismatch!"
                   ELSE IF ~is_finished(rlp_stream) THEN "RlpStream::out: unfinished list"
                   ELSE "",
         out |-> as_raw(rlp_stream)]

\* Mutant: a zero is pushed before the length is looked at (a do-while loop).
pad_node_at_least_once(raw) ==
    IF Len(raw) < PROOF_BYTES_LEN THEN raw \o Rep(PROOF_BYTES_LEN - Len(raw), 0)
    ELSE Append(raw, 0)

\* Mutant: the node is resized to the width, which cuts a longer node.
pad_node_resize(raw) ==
    IF Len(raw) < PROOF_BYTES_LEN THEN raw \o Rep(PROOF_BYTES_LEN - Len(raw), 0)
    ELSE SubSeq(raw, 1, PROOF_BYTES_LEN)

\* Per-node zero padding: while raw.len() < PROOF_BYTES_LEN { raw.push(0) }.
pad_node(raw) ==
    IF Len(raw) < PROOF_BYTES_LEN THEN raw \o Rep(PROOF_BYTES_LEN - Len(raw), 0) ELSE raw

\* The first loop of a normalization: every node of the proof, padded, in order.
pad_nodes(nodes) == [k \in 1..Len(nodes) |-> pad_node(nodes[k])]

\* Mutant: nodes are pushed while the proof has at most max_depth nodes.
pad_depth_inclusive(nodes, max_depth) ==
    IF Len(nodes) <= max_depth
    THEN nodes \o [k \in 1..(max_depth + 1 - Len(nodes)) |-> Rep(PROOF_BYTES_LEN, 0)]
    ELSE nodes

\* The second loop: all-zero nodes are pushed while the proof has fewer than
\* max_depth nodes.
pad_depth(nodes, max_depth) ==
    IF Len(nodes) < max_depth
    THEN nodes \o [k \in 1..(max_depth - Len(nodes)) |-> Rep(PROOF_BYTES_LEN, 0)]
    ELSE nodes

\* The two loops, on the nodes of a fetched proof.
normalize(nodes, max_depth) == pad_depth(pad_nodes(nodes), max_depth)

\* The third loop: every byte of every node, in order, in one vector.
RECURSIVE flatten(_)
flatten(nodes) == IF nodes = <<>> THEN <<>> ELSE Head(nodes) \o flatten(Tail(nodes))

\* while rlp_encoded_block.len() < BLOCK_HEADER_RLP_BYTES { push(0) }
pad_header(data) ==
    IF Len(data) < BLOCK_HEADER_RLP_BYTES
    THEN data \o Rep(BLOCK_HEADER_RLP_BYTES - Len(data), 0) ELSE data

\* account_value_rlp_stream.as_raw() after begin_list(4) and the four appends.
account_value_rlp(p) ==
    as_raw(append_all(begin_list(rlp_new, 4),
                      <<p.nonce, p.balance, p.storage_hash, p.code_hash>>))

\* Proof::default(), which unwrap_or_default() gives for a missing proof.
default_proof ==
    [nonce |-> <<>>, balance |-> <<>>, storage_hash |-> Rep(32, 0), code_hash |-> Rep(32, 0),
     account_proof |-> <<>>, storage_proof |-> <<>>]

\* ------------------------------------------------- Chain Data Source
\* The header encoding the chain hashes: a list of all the fields the block
\* has, the base fee included whenever it is present.
chain_rlp(block) ==
    LET items == SubSeq(header_items(block), 1, 15)
                 \o (IF is_some(block.base_fee_per_gas)
                     THEN <<unwrap(block.base_fee_per_gas)>> ELSE <<>>)
    IN  as_raw(append_all(begin_list(rlp_new, Len(items)), items))

TARGET_ACCOUNT == Fill(20, 100)

ExtraLens == {0, 1, 32, MaxExtraData}
\* Absent, present and zero, present and 5 000 000 000.
BaseFees == {None, Some(<<>>), Some(<<1, 42, 5, 242, 0>>)}

Header(extra_len, base_fee, bloom, parent) ==
    [parent_hash |-> parent,
     uncles_hash |-> Fill(32, 20),
     author |-> Fill(20, 30),
     state_root |-> Fill(32, 40),
     transactions_root |-> Fill(32, 50),
     receipts_root |-> Fill(32, 60),
     logs_bloom |-> bloom,
     difficulty |-> <<>>,
     number |-> Some(<<1, 3, 102, 64>>),
     gas_limit |-> <<1, 201, 195, 128>>,
     gas_used |-> <<200, 17, 5>>,
     timestamp |-> <<100, 160, 1, 7>>,
     extra_data |-> Fill(extra_len, 80),
     mix_hash |-> Some(Fill(32, 90)),
     nonce |-> Some(Rep(8, 0)),
     base_fee_per_gas |-> base_fee]

\* The headers a fetch may return: the bloom may be missing, and the parent
\* hash may happen to equal the state root.
HeaderShapes == {<<Some(Fill(256, 70)), Fill(32, 10)>>, <<Some(Fill(256, 70)), Fill(32, 40)>>,
                 <<None, Fill(32, 10)>>}

Headers ==
    {Header(e, f, s[1], s[2]) : e \in ExtraLens, f \in BaseFees, s \in HeaderShapes}

\* The hash the source publishes with a header: none, the digest of the chain's
\* encoding, the digest of what the encoder's stream holds, or another one.
HashesOf(h) ==
    {None, Some(keccak256(chain_rlp(h))), Some(keccak256(as_raw(header_stream(h)))),
     Some(Rep(32, 0))}

Blocks == UNION {{[f \in DOMAIN h \cup {"hash"} |-> IF f = "hash" THEN x ELSE h[f]] :
                    x \in HashesOf(h)} : h \in Headers}

\* web3::Result<T>: Err(e) or Ok(value).
Err == [ok |-> FALSE, value |-> None]
Ok(v) == [ok |-> TRUE, value |-> v]

\* Ok(None), Ok(Some(block)) or Err.
BlockResults == {Err, Ok(None)} \cup {Ok(Some(b)) : b \in Blocks}

\* A proof of n nodes whose lengths alternate between a and b.
Nodes(n, a, b, seed) == [k \in 1..n |-> Fill(IF k % 2 = 1 THEN a ELSE b, seed + k)]

Depths == {0, 6, STORAGE_PROOF_MAX_DEPTH, ACCOUNT_PROOF_MAX_DEPTH, MaxDepth}
NodeLens == {0, 300, PROOF_BYTES_LEN - 1, PROOF_BYTES_LEN, MaxNodeLen}

ProofOf(account_nodes, entries) ==
    [nonce |-> <<1>>, balance |-> <<13, 224, 182, 179>>,
     storage_hash |-> Fill(32, 110), code_hash |-> Fill(32, 120),
     account_proof |-> account_nodes, storage_proof |-> entries]

StorageEntry(nodes) == [key |-> <<2>>, value |-> <<1, 0>>, proof |-> nodes]

\* The proofs a fetch may return; one has no entry for the requested slot.
Proofs ==
    {ProofOf(Nodes(n, a, b, 0), <<StorageEntry(Nodes(n, b, a, 50))>>) :
        n \in Depths, a \in NodeLens, b \in {300, PROOF_BYTES_LEN}}
    \cup {ProofOf(Nodes(6, 300, 300, 0), <<>>)}

\* Ok(None), Ok(Some(proof)) or Err.
ProofResults == {Err, Ok(None)} \cup {Ok(Some(p)) : p \in Proofs}

\* The locator's inputs: roots of 32 bytes and of other lengths, and buffers
\* that hold the root once, twice, damaged or not at all between short fillers.
Fillers == UNION {[1..n -> {1, 2}] : n \in 0..MaxFill}
LocRoots == {Rep(32, 1), [i \in 1..32 |-> 1 + (i % 2)], Rep(31, 1), Rep(33, 1), <<>>}
LocMiddles(root) ==
    {root, root \o root, <<>>} \cup
    (IF root = <<>> THEN {} ELSE {[root EXCEPT ![Len(root)] = 3]})

\* ---------------------------------------------------------------- state
VARIABLES
    pc,                     \* where main is
    args,                   \* env::args()
    env,                    \* which of the environment variables are set
    block,                  \* the fetched block
    enc_hash,               \* hash of rlp_encode_block (line 86)
    rlp_stream,             \* rlp_stream of rlp_encode_block when it ends
    rlp_encoded_block,
    state_root,
    split,                  \* (rlp_head_bytes, _, rlp_tail_bytes)
    hash,                   \* hash of main (line 140)
    proof_requests,         \* calls of web3.eth().proof
    unwrapped,              \* the fetched proof
    account_value,
    account_proof,
    account_proof_flat_vec,
    storage_proof,
    storage_proof_flat_vec,
    storage_key_bytes,
    storage_value_bytes,
    stdout,                 \* the lines printed, each <<name, value>>
    stderr,
    outcome,                \* "running", "ok", "err" or "panic"
    panic_msg,
    loc_in,                 \* the locator called alone: its arguments
    loc_out                 \*   and what the call gave

vars == <<pc, args, env, block, enc_hash, rlp_stream, rlp_encoded_block, state_root, split,
          hash, proof_requests, unwrapped, account_value, account_proof,
          account_proof_flat_vec, storage_proof, storage_proof_flat_vec,
          storage_key_bytes, storage_value_bytes, stdout, stderr, outcome, panic_msg,
          loc_in, loc_out>>

header_vars == <<block, enc_hash, rlp_stream, rlp_encoded_block, state_root, split, hash>>
proof_vars == <<proof_requests, unwrapped, account_value, account_proof,
                account_proof_flat_vec, storage_proof, storage_proof_flat_vec,
                storage_key_bytes, storage_value_bytes>>
input_vars == <<args, env>>
loc_vars == <<loc_in, loc_out>>
out_vars == <<stdout, stderr>>

ArgLists == {<<"noir-mip">>, <<"noir-mip", "gen_prove_params">>,
             <<"noir-mip", "gen_verify_params">>, <<"noir-mip", "gen_params">>}
Envs == {"ok", "no_rpc", "no_target"}

Blank ==
    /\ pc = "start"
    /\ block = None
    /\ enc_hash = <<>>
    /\ rlp_stream = rlp_new
    /\ rlp_encoded_block = <<>>
    /\ state_root = <<>>
    /\ split = None
    /\ hash = <<>>
    /\ proof_requests = 0
    /\ unwrapped = default_proof
    /\ account_value = <<>>
    /\ account_proof = <<>>
    /\ account_proof_flat_vec = <<>>
    /\ storage_proof = <<>>
    /\ storage_proof_flat_vec = <<>>
    /\ storage_key_bytes = <<>>
    /\ storage_value_bytes = <<>>
    /\ stdout = <<>>
    /\ stderr = <<>>
    /\ outcome = "running"
    /\ panic_msg = ""

Init ==
    /\ Blank
    /\ args \in ArgLists
    /\ env \in Envs
    /\ loc_in = <<>>
    /\ loc_out = <<>>

\* panic!(msg), or an unwrap/expect/index that fails.
Panic(msg) ==
    /\ pc' = "done"
    /\ outcome' = "panic"
    /\ panic_msg' = msg

\* Lines 99-102.
CheckArgs ==
    /\ pc = "start"
    /\ IF Len(args) = 1
       THEN Panic("No arguments passed.")
       ELSE pc' = "config" /\ UNCHANGED <<outcome, panic_msg>>
    /\ UNCHANGED <<input_vars, header_vars, proof_vars, out_vars, loc_vars>>

\* Lines 104-108: MAINNET_RPC and BLOCK_NUMBER.
ReadConfig ==
    /\ pc = "config"
    /\ IF env = "no_rpc"
       THEN Panic("called Result::unwrap() on an Err value")
       ELSE pc' = "fetch_block" /\ UNCHANGED <<outcome, panic_msg>>
    /\ UNCHANGED <<input_vars, header_vars, proof_vars, out_vars, loc_vars>>

\* Lines 109-112: the block is fetched; an error of the request is returned
\* from main by the ? operator.
FetchBlock ==
    /\ pc = "fetch_block"
    /\ \E r \in BlockResults :
         IF ~r.ok
         THEN pc' = "done" /\ outcome' = "err" /\ UNCHANGED block
         ELSE pc' = "block" /\ block' = r.value /\ UNCHANGED outcome
    /\ UNCHANGED <<input_vars, enc_hash, rlp_stream, rlp_encoded_block, state_root, split,
                   hash, proof_vars, out_vars, panic_msg, loc_vars>>

\* Mutant: a missing block is a panic, as the other failures are.
MatchBlock_abort ==
    /\ pc = "block"
    /\ IF is_some(block)
       THEN pc' = "target" /\ UNCHANGED <<outcome, panic_msg>>
       ELSE Panic("Block not found!")
    /\ UNCHANGED <<input_vars, header_vars, proof_vars, out_vars, loc_vars>>

\* Lines 114 and 242-246: a missing block is reported and main returns Ok(()).
MatchBlock ==
    /\ pc = "block"
    /\ IF is_some(block)
       THEN pc' = "target" /\ UNCHANGED <<outcome, stderr>>
       ELSE /\ stderr' = Append(stderr, "Block not found!")
            /\ pc' = "done" /\ outcome' = "ok"
    /\ UNCHANGED <<input_vars, header_vars, proof_vars, stdout, panic_msg, loc_vars>>

\* Lines 115-118: TARGET_ACCOUNT and STORAGE_SLOT.
ReadTarget ==
    /\ pc = "target"
    /\ IF env = "no_target"
       THEN Panic("called Result::unwrap() on an Err value")
       ELSE pc' = "encode" /\ UNCHANGED <<outcome, panic_msg>>
    /\ UNCHANGED <<input_vars, header_vars, proof_vars, out_vars, loc_vars>>

\* Line 120: rlp_encode_block(&block), lines 52-94.
EncodeHeader ==
    /\ pc = "encode"
    /\ LET r == rlp_encode_block(unwrap(block))
       IN  /\ rlp_stream' = r.stream
           /\ enc_hash' = r.hash
           /\ IF r.panic # ""
              THEN Panic(r.panic) /\ UNCHANGED rlp_encoded_block
              ELSE /\ pc' = "locate" /\ rlp_encoded_block' = r.out
                   /\ UNCHANGED <<outcome, panic_msg>>
    /\ UNCHANGED <<input_vars, block, state_root, split, hash, proof_vars, out_vars, loc_vars>>

\* Lines 122-138: the state root is read back from the encoding and the
\* encoding is split around it.
LocateStateRoot ==
    /\ pc = "locate"
    /\ LET item == rlp_at_data(rlp_encoded_block, 3)
       IN  IF ~is_some(item)
           THEN /\ pc' = "done" /\ outcome' = "err"
                /\ UNCHANGED <<state_root, split, panic_msg>>
           ELSE /\ state_root' = unwrap(item)
                /\ IF split_panics(rlp_encoded_block, unwrap(item))
                   THEN Panic("slice index out of range") /\ UNCHANGED split
                   ELSE LET r == split_rlp_by_state_root(rlp_encoded_block, unwrap(item))
                        IN  IF is_some(r)
                            THEN /\ split' = r /\ pc' = "verify"
                                 /\ UNCHANGED <<outcome, panic_msg>>
                            ELSE Panic("Failed to split RLP data") /\ UNCHANGED split
    /\ UNCHANGED <<input_vars, block, enc_hash, rlp_stream, rlp_encoded_block, hash,
                   proof_vars, out_vars, loc_vars>>

\* Lines 140-145.
VerifyHash ==
    /\ pc = "verify"
    /\ hash' = keccak256(rlp_encoded_block)
    /\ IF unwrap(unwrap(block).hash) # hash'
       THEN Panic("Verification: Block hash mismatch!")
       ELSE pc' = "pad" /\ UNCHANGED <<outcome, panic_msg>>
    /\ UNCHANGED <<input_vars, block, enc_hash, rlp_stream, rlp_encoded_block, state_root,
                   split, proof_vars, out_vars, loc_vars>>

\* Lines 147-149.
PadHeader ==
    /\ pc = "pad"
    /\ rlp_encoded_block' = pad_header(rlp_encoded_block)
    /\ pc' = "fetch_proof"
    /\ UNCHANGED <<input_vars, block, enc_hash, rlp_stream, state_root, split, hash,
                   proof_vars, out_vars, outcome, panic_msg, loc_vars>>

\* Lines 151-156: the proof is fetched; a missing proof becomes the default.
FetchProof ==
    /\ pc = "fetch_proof"
    /\ proof_requests' = proof_requests + 1
    /\ \E r \in ProofResults :
         IF ~r.ok
         THEN /\ pc' = "done" /\ outcome' = "err" /\ UNCHANGED unwrapped
         ELSE /\ pc' = "account_value" /\ UNCHANGED outcome
              /\ unwrapped' = IF is_some(r.value) THEN unwrap(r.value) ELSE default_proof
    /\ UNCHANGED <<input_vars, header_vars, account_value, account_proof,
                   account_proof_flat_vec, storage_proof, storage_proof_flat_vec,
                   storage_key_bytes, storage_value_bytes, out_vars, panic_msg, loc_vars>>

\* Lines 158-164.
EncodeAccountValue ==
    /\ pc = "account_value"
    /\ account_value' = account_value_rlp(unwrapped)
    /\ pc' = "account_proof"
    /\ UNCHANGED <<input_vars, header_vars, proof_requests, unwrapped, account_proof,
                   account_proof_flat_vec, storage_proof, storage_proof_flat_vec,
                   storage_key_bytes, storage_value_bytes, out_vars, outcome, panic_msg,
                   loc_vars>>

\* Lines 166-185.
NormalizeAccountProof ==
    /\ pc = "account_proof"
    /\ account_proof' = normalize(unwrapped.account_proof, ACCOUNT_PROOF_MAX_DEPTH)
    /\ account_proof_flat_vec' = flatten(account_proof')
    /\ pc' = "storage_proof"
    /\ UNCHANGED <<input_vars, header_vars, proof_requests, unwrapped, account_value,
                   storage_proof, storage_proof_flat_vec, storage_key_bytes,
                   storage_value_bytes, out_vars, outcome, panic_msg, loc_vars>>

\* Lines 187-206: storage_proof[0] panics when the response has no entry.
NormalizeStorageProof ==
    /\ pc = "storage_proof"
    /\ IF unwrapped.storage_proof = <<>>
       THEN /\ Panic("index out of bounds: the len is 0 but the index is 0")
            /\ UNCHANGED <<storage_proof, storage_proof_flat_vec>>
       ELSE /\ storage_proof' = normalize(unwrapped.storage_proof[1].proof,
                                          STORAGE_PROOF_MAX_DEPTH)
            /\ storage_proof_flat_vec' = flatten(storage_proof')
            /\ pc' = "storage_key"
            /\ UNCHANGED <<outcome, panic_msg>>
    /\ UNCHANGED <<input_vars, header_vars, proof_requests, unwrapped, account_value,
                   account_proof, account_proof_flat_vec, storage_key_bytes,
                   storage_value_bytes, out_vars, loc_vars>>

\* Lines 208-213.
StorageKeyValue ==
    /\ pc = "storage_key"
    /\ storage_key_bytes' = to_big_endian(unwrapped.storage_proof[1].key)
    /\ storage_value_bytes' = to_big_endian(unwrapped.storage_proof[1].value)
    /\ pc' = "emit"
    /\ UNCHANGED <<input_vars, header_vars, proof_requests, unwrapped, account_value,
                   account_proof, account_proof_flat_vec, storage_proof,
                   storage_proof_flat_vec, out_vars, outcome, panic_msg, loc_vars>>

\* Lines 217-232: the lines of gen_prove_params.
prove_lines ==
    <<<<"block_hash", unwrap(unwrap(block).hash)>>,
      <<"account_key", TARGET_ACCOUNT>>,
      <<"account_value", account_value>>,
      <<"storage_key", storage_key_bytes>>,
      <<"storage_value", storage_value_bytes>>,
      <<"block_header_rlp", rlp_encoded_block>>,
      <<"block_header_rlp_head_len", <<Len(unwrap(split)[1])>>>>,
      <<"block_header_rlp_tail_len", <<Len(unwrap(split)[3])>>>>,
      <<"storage_root", unwrapped.storage_hash>>,
      <<"account_proof", account_proof_flat_vec>>,
      <<"storage_proof", storage_proof_flat_vec>>,
      <<"account_proof_depth", <<Len(unwrapped.account_proof)>>>>,
      <<"storage_proof_depth", <<Len(unwrapped.storage_proof[1].proof)>>>>>>

\* Mutant: gen_verify_params prints the header bytes too, and the storage
\* value under the name of the key.
verify_lines_leaky ==
    <<<<"account_key", TARGET_ACCOUNT>>,
      <<"account_value", account_value>>,
      <<"block_hash", unwrap(unwrap(block).hash)>>,
      <<"storage_key", storage_value_bytes>>,
      <<"storage_value", storage_value_bytes>>,
      <<"block_header_rlp", rlp_encoded_block>>>>

\* Lines 234-238: the lines of gen_verify_params.
verify_lines ==
    <<<<"account_key", TARGET_ACCOUNT>>,
      <<"account_value", account_value>>,
      <<"block_hash", unwrap(unwrap(block).hash)>>,
      <<"storage_key", storage_key_bytes>>,
      <<"storage_value", storage_value_bytes>>>>

\* Lines 215-241 and 246.
Emit ==
    /\ pc = "emit"
    /\ IF args[2] = "gen_prove_params"
       THEN /\ stdout' = stdout \o prove_lines
            /\ pc' = "done" /\ outcome' = "ok" /\ UNCHANGED panic_msg
       ELSE IF args[2] = "gen_verify_params"
       THEN /\ stdout' = stdout \o verify_lines
            /\ pc' = "done" /\ outcome' = "ok" /\ UNCHANGED panic_msg
       ELSE Panic("Invalid command!") /\ UNCHANGED stdout
    /\ UNCHANGED <<input_vars, header_vars, proof_vars, stderr, loc_vars>>

Next ==
    \/ CheckArgs
    \/ ReadConfig
    \/ FetchBlock
    \/ MatchBlock
    \/ ReadTarget
    \/ EncodeHeader
    \/ LocateStateRoot
    \/ VerifyHash
    \/ PadHeader
    \/ FetchProof
    \/ EncodeAccountValue
    \/ NormalizeAccountProof
    \/ NormalizeStorageProof
    \/ StorageKeyValue
    \/ Emit

Spec == Init /\ [][Next]_vars

\* ----------------------------------------------- the locator on its own
\* split_rlp_by_state_root(data, root).expect("Failed to split RLP data"),
\* lines 136-138, on any buffer and root.
LocatorInit ==
    /\ Blank
    /\ args = <<"noir-mip">>
    /\ env = "ok"
    /\ \E root \in LocRoots, pre \in Fillers, post \in Fillers :
         \E mid \in LocMiddles(root) :
            loc_in = <<pre \o mid \o post, root>>
    /\ loc_out = <<>>

LocatorCall ==
    /\ pc = "start"
    /\ IF split_panics(loc_in[1], loc_in[2])
       THEN Panic("slice index out of range") /\ UNCHANGED loc_out
       ELSE LET r == split_rlp_by_state_root(loc_in[1], loc_in[2])
            IN  IF is_some(r)
                THEN /\ loc_out' = unwrap(r)
                     /\ pc' = "done" /\ outcome' = "ok" /\ UNCHANGED panic_msg
                ELSE Panic("Failed to split RLP data") /\ UNCHANGED loc_out
    /\ UNCHANGED <<input_vars, header_vars, proof_vars, out_vars, loc_in>>

LocatorNext == LocatorCall

LocatorSpec == LocatorInit /\ [][LocatorNext]_vars

\* --------------------------------------------------------------- claims
ValidTokens == {"gen_prove_params", "gen_verify_params"}

\* The names of the lines printed so far.
Names == {stdout[i][1] : i \in DOMAIN stdout}

\* The encoded header before padding: what the encoder's stream held.
Unpadded == as_raw(rlp_stream)

\* main is past the padding loop of lines 147-149.
HeaderPadded ==
    \/ pc \in {"fetch_proof", "account_value", "account_proof", "storage_proof",
               "storage_key", "emit"}
    \/ pc = "done" /\ proof_requests > 0

\* a is a prefix of b and b holds only zero bytes after it.
ZeroPadded(a, b) ==
    /\ Len(a) <= Len(b)
    /\ SubSeq(b, 1, Len(a)) = a
    /\ SubSeq(b, Len(a) + 1, Len(b)) = Rep(Len(b) - Len(a), 0)

\* C1: a parameter line is printed only when the digest taken in
\* rlp_encode_block and the digest taken in main both are the keccak-256 digest
\* of the unpadded encoded header and both equal the published hash; a digest
\* that differs from the published hash, at either point, ends the run in a
\* panic with nothing printed.
C1_NoOutputWithoutVerifiedHash ==
    /\ stdout # <<>> =>
          /\ enc_hash = keccak256(Unpadded)
          /\ hash = keccak256(Unpadded)
          /\ unwrap(block).hash = Some(enc_hash)
          /\ unwrap(block).hash = Some(hash)
    /\ (enc_hash # <<>> /\ unwrap(block).hash # Some(enc_hash)) =>
          pc = "done" /\ outcome = "panic" /\ stdout = <<>>
    /\ (hash # <<>> /\ unwrap(block).hash # Some(hash)) =>
          pc = "done" /\ outcome = "panic" /\ stdout = <<>>

\* C1 witness: all the lines of gen_prove_params are out, after both digests
\* equalled the published hash.
C1_Witness ==
    /\ pc = "done" /\ outcome = "ok" /\ Len(stdout) = 13
    /\ unwrap(block).hash = Some(enc_hash) /\ hash = enc_hash

\* The 0-based offsets at which root occurs in data as a contiguous run.
Occurrences(data, root) ==
    {i \in 0..(Len(data) - Len(root)) : SubSeq(data, i + 1, i + Len(root)) = root}

\* C2: for a 32-byte root that occurs in the buffer, the locator gives
\* (head, root, tail) with head the bytes before the lowest offset at which the
\* root occurs, the middle part equal to the root, and head, root and tail
\* together the whole buffer; for a 32-byte root that does not occur the call
\* gives None and the run panics.
C2_SplitReconstructs ==
    (pc = "done" /\ Len(loc_in[2]) = 32) =>
        LET data == loc_in[1]
            root == loc_in[2]
            occ == Occurrences(data, root)
        IN  IF occ # {}
            THEN /\ outcome = "ok"
                 /\ Len(loc_out) = 3
                 /\ \A i \in occ : Len(loc_out[1]) <= i
                 /\ Len(loc_out[1]) \in occ
                 /\ loc_out[1] = SubSeq(data, 1, Len(loc_out[1]))
                 /\ loc_out[2] = root
                 /\ loc_out[1] \o loc_out[2] \o loc_out[3] = data
                 /\ Len(loc_out[1]) + 32 + Len(loc_out[3]) = Len(data)
            ELSE /\ outcome = "panic"
                 /\ panic_msg = "Failed to split RLP data"
                 /\ loc_out = <<>>

\* C2 witness: a buffer that holds the 32-byte root at two offsets was split
\* at the lower one, behind a head that is not empty.
C2_Witness ==
    /\ pc = "done" /\ outcome = "ok" /\ Len(loc_in[2]) = 32
    /\ Cardinality(Occurrences(loc_in[1], loc_in[2])) >= 2
    /\ loc_out[1] # <<>>

\* Every node is at most w bytes long and there are at most n nodes.
Fits(nodes, w, n) == Len(nodes) <= n /\ \A k \in 1..Len(nodes) : Len(nodes[k]) <= w

\* C3: a proof whose nodes are at most 532 bytes long and whose depth is at
\* most the maximum is normalized to exactly maximum * 532 bytes: 5320 for the
\* account proof, 4788 for the storage proof.
C3_PaddingExact ==
    /\ (account_proof # <<>>
        /\ Fits(unwrapped.account_proof, PROOF_BYTES_LEN, ACCOUNT_PROOF_MAX_DEPTH)) =>
          /\ Len(account_proof_flat_vec) = ACCOUNT_PROOF_MAX_DEPTH * PROOF_BYTES_LEN
          /\ Len(account_proof_flat_vec) = 5320
    /\ (storage_proof # <<>>
        /\ Fits(unwrapped.storage_proof[1].proof, PROOF_BYTES_LEN, STORAGE_PROOF_MAX_DEPTH)) =>
          /\ Len(storage_proof_flat_vec) = STORAGE_PROOF_MAX_DEPTH * PROOF_BYTES_LEN
          /\ Len(storage_proof_flat_vec) = 4788

\* C3 witness: an account proof of 6 nodes of 300 bytes was normalized to
\* 5320 bytes.
C3_Witness ==
    /\ Len(unwrapped.account_proof) = 6
    /\ \A k \in 1..6 : Len(unwrapped.account_proof[k]) = 300
    /\ Len(account_proof_flat_vec) = 5320
    /\ storage_proof # <<>>

\* C4, as claimed: every block_header_rlp line holds exactly 590 bytes.
C4_HeaderLineIsH ==
    \A i \in DOMAIN stdout :
        stdout[i][1] = "block_header_rlp" => Len(stdout[i][2]) = BLOCK_HEADER_RLP_BYTES

\* C5, as claimed and read in the claim's favour (any fatal ending counts): a
\* run whose command token is not one of the two commands ends in a panic or
\* an error, with nothing printed, and a run without a token panics with
\* "No arguments passed.".
C5_InvalidTokenIsFatal ==
    /\ (pc = "done" /\ Len(args) >= 2 /\ args[2] \notin ValidTokens) =>
          outcome \in {"panic", "err"} /\ stdout = <<>>
    /\ (pc = "done" /\ Len(args) = 1) =>
          outcome = "panic" /\ panic_msg = "No arguments passed." /\ stdout = <<>>

\* C6: what gen_verify_params prints is nothing or the five lines account_key,
\* account_value, block_hash, storage_key and storage_value, each with the value
\* gen_prove_params prints under that name for the same fetched data.
C6_VerifyModeLines ==
    (Len(args) >= 2 /\ args[2] = "gen_verify_params") =>
        \/ stdout = <<>>
        \/ /\ pc = "done" /\ outcome = "ok"
           /\ Len(stdout) = 5
           /\ Names = {"account_key", "account_value", "block_hash", "storage_key",
                       "storage_value"}
           /\ Names \cap {"block_header_rlp", "block_header_rlp_head_len",
                          "block_header_rlp_tail_len", "storage_root", "account_proof",
                          "storage_proof", "account_proof_depth", "storage_proof_depth"} = {}
           /\ \A i \in DOMAIN stdout :
                 \E j \in DOMAIN prove_lines : stdout[i] = prove_lines[j]

\* C6 witness: gen_verify_params has printed its lines.
C6_Witness ==
    /\ pc = "done" /\ Len(args) >= 2 /\ args[2] = "gen_verify_params"
    /\ stdout # <<>>

\* C7: from a fetch that gave no block, main reports "Block not found!",
\* prints no line, has requested no proof and returns Ok(()).
C7_BlockNotFound ==
    [][(pc = "block" /\ block = None) =>
          /\ pc' = "done"
          /\ outcome' = "ok"
          /\ stderr' = <<"Block not found!">>
          /\ stdout' = <<>>
          /\ proof_requests' = 0]_vars

\* C7 witness: a gen_prove_params run ended after the source had no block.
C7_Witness ==
    /\ pc = "done" /\ block = None /\ outcome = "ok"
    /\ stderr = <<"Block not found!">>
    /\ args[2] = "gen_prove_params"

\* Exactly n nodes of exactly w bytes.
Normalized(nodes, w, n) == Len(nodes) = n /\ \A k \in 1..n : Len(nodes[k]) = w

\* flat is the nodes' bytes one node after the other, each node w bytes long.
Concatenated(flat, nodes, w) ==
    /\ Len(flat) = Len(nodes) * w
    /\ \A k \in 1..Len(nodes) : SubSeq(flat, (k - 1) * w + 1, k * w) = nodes[k]

\* C8: a proof of exactly the maximum depth whose nodes are exactly 532 bytes
\* long comes out of the normalization as it went in, flattened to the
\* concatenation of its nodes; and normalizing the outcome of any
\* normalization changes nothing.
C8_PaddingIdempotent ==
    /\ account_proof # <<>> =>
          /\ Normalized(unwrapped.account_proof, PROOF_BYTES_LEN, ACCOUNT_PROOF_MAX_DEPTH) =>
                /\ account_proof = unwrapped.account_proof
                /\ Concatenated(account_proof_flat_vec, unwrapped.account_proof,
                                PROOF_BYTES_LEN)
          /\ normalize(account_proof, ACCOUNT_PROOF_MAX_DEPTH) = account_proof
    /\ storage_proof # <<>> =>
          /\ Normalized(unwrapped.storage_proof[1].proof, PROOF_BYTES_LEN,
                        STORAGE_PROOF_MAX_DEPTH) =>
                /\ storage_proof = unwrapped.storage_proof[1].proof
                /\ Concatenated(storage_proof_flat_vec, unwrapped.storage_proof[1].proof,
                                PROOF_BYTES_LEN)
          /\ normalize(storage_proof, STORAGE_PROOF_MAX_DEPTH) = storage_proof

\* C8 witness: an account proof of 10 nodes of 532 bytes, none of them all
\* zero, was normalized.
C8_Witness ==
    /\ account_proof # <<>>
    /\ Normalized(unwrapped.account_proof, PROOF_BYTES_LEN, ACCOUNT_PROOF_MAX_DEPTH)
    /\ \A k \in 1..ACCOUNT_PROOF_MAX_DEPTH : unwrapped.account_proof[k][PROOF_BYTES_LEN] # 0

\* C9: once the header is encoded, the list was declared with 15 items without
\* a base fee and 16 with one; with a base fee of zero the stream is left with
\* an open list that declared 16 items and holds 15, and otherwise the list
\* is closed and holds as many items as it declared.
C9_DeclaredAndAppended ==
    (block # None /\ rlp_stream # rlp_new) =>
        LET fee == unwrap(block).base_fee_per_gas
            declared == IF is_some(fee) THEN 16 ELSE 15
        IN  IF is_some(fee) /\ unwrap(fee) = <<>>
            THEN /\ Len(rlp_stream.unfinished_lists) = 1
                 /\ rlp_stream.unfinished_lists[1].max = declared
                 /\ rlp_stream.unfinished_lists[1].current = 15
                 /\ rlp_stream.unfinished_lists[1].current = declared - 1
            ELSE /\ rlp_stream.unfinished_lists = <<>>
                 /\ item_count(as_raw(rlp_stream)) = declared
                 /\ Len(as_raw(rlp_stream)) =
                        payload_info(as_raw(rlp_stream), 0).header_len
                        + payload_info(as_raw(rlp_stream), 0).value_len

\* C9 witness: a header with a base fee of zero was encoded.
C9_Witness ==
    /\ block # None /\ rlp_stream # rlp_new
    /\ unwrap(block).base_fee_per_gas = Some(<<>>)

\* C10: the padded header is the unpadded encoding followed by zero bytes only,
\* and it is what the block_header_rlp line holds; every node of a fetched
\* proof is, at its own index, the start of the normalized node, which holds
\* only zero bytes after it, and the nodes added behind them are all zero.
C10_PaddingOnlyAppends ==
    /\ HeaderPadded => ZeroPadded(Unpadded, rlp_encoded_block)
    /\ \A i \in DOMAIN stdout :
          stdout[i][1] = "block_header_rlp" => ZeroPadded(Unpadded, stdout[i][2])
    /\ account_proof # <<>> =>
          /\ Len(account_proof) >= Len(unwrapped.account_proof)
          /\ \A k \in 1..Len(account_proof) :
                ZeroPadded(IF k <= Len(unwrapped.account_proof)
                           THEN unwrapped.account_proof[k] ELSE <<>>,
                           account_proof[k])
          /\ account_proof_flat_vec = flatten(account_proof)
    /\ storage_proof # <<>> =>
          /\ Len(storage_proof) >= Len(unwrapped.storage_proof[1].proof)
          /\ \A k \in 1..Len(storage_proof) :
                ZeroPadded(IF k <= Len(unwrapped.storage_proof[1].proof)
                           THEN unwrapped.storage_proof[1].proof[k] ELSE <<>>,
                           storage_proof[k])
          /\ storage_proof_flat_vec = flatten(storage_proof)

\* C10 witness: the lines are out for a header shorter than 590 bytes and an
\* account proof deeper than 10 nodes with a node longer than 532 bytes.
C10_Witness ==
    /\ "block_header_rlp" \in Names
    /\ Len(Unpadded) < BLOCK_HEADER_RLP_BYTES
    /\ Len(unwrapped.account_proof) > ACCOUNT_PROOF_MAX_DEPTH
    /\ \E k \in 1..Len(unwrapped.account_proof) :
          Len(unwrapped.account_proof[k]) > PROOF_BYTES_LEN

====
